---- MODULE Spec2Model ----
(***************************************************************************)
(* A model of src/markov-model.js: the order-`depth` Markov model with its *)
(* symbol table, chain counter (`counts`), lazily built probability index  *)
(* (`probabilities`), trainer, generator, scorer and JSON round trip.      *)
(*                                                                         *)
(* Representation.  JavaScript property keys are strings, so a symbol      *)
(* index is carried as its decimal rendering ("0", "1", ...), the form in  *)
(* which the code uses it as a key of counts[prefix], as an element of a   *)
(* joined prefix and as the value `for .. in` hands back.  A prefix key    *)
(* (list.join(",")) is the tuple of the joined elements; join is injective *)
(* on them because no element contains the separator.                      *)
(*                                                                         *)
(* Numbers.  Spec and SpecModel compute with exact rationals <<n, d>> in   *)
(* lowest terms, and Math.random() is a draw r / RandDen, 0 <= r < RandDen.*)
(* SpecFloat computes the probability index as the program does, in IEEE   *)
(* 754 binary64 with round to nearest, ties to even, and draws             *)
(* Math.random() from binary64 numbers in [0, 1).                          *)
(***************************************************************************)
EXTENDS Integers, Sequences, FiniteSets, TLC

VARIABLES
  depth,          \* this.depth
  symbols,        \* this.symbols: index -> symbol (position 1 is index 0)
  symbolMap,      \* this.symbolMap: symbol -> index
  counts,         \* this.counts: prefix key -> (suffix key or "_sum" -> count)
  probabilities,  \* this.probabilities: null or the built table
  pc,             \* "idle", "loop" (generate at its while loop) or "done"
  minLength,      \* generate's arguments, maxLength after `|| minLength`
  maxLength,
  string,         \* generate's output list
  pfx,            \* generate's current state window
  sfx,            \* generate's last sampled suffix
  zCount,         \* generate's count of boundary draws
  ret,            \* what the call returned or threw
  lastOp,         \* the operation that was called
  arg,            \* the sequence given to train or score
  nTrains,        \* number of train calls so far
  windows,        \* history: the windows of all padded training sequences
  zRun,           \* history: length of the current run of boundary draws
  maxRun          \* history: longest run of boundary draws of this call

vars == << depth, symbols, symbolMap, counts, probabilities, pc, minLength,
           maxLength, string, pfx, sfx, zCount, ret, lastOp, arg, nTrains,
           windows, zRun, maxRun >>

(***************************************************************************)
(* Bounds of the model.                                                    *)
(***************************************************************************)
MaxDepth == 2      \* depths 1..MaxDepth are constructed
MaxLen == 2        \* longest sequence given to train and score
MaxTrains == 2     \* train calls in one behaviour of SpecModel
GenTrains == 1     \* train calls in one behaviour of Spec
MaxGen == 3        \* largest minLength / maxLength given to generate
RandDen == 3       \* Math.random() draws from {0/RandDen, ..., (RandDen-1)/RandDen}

Alphabet == {"a", "b"}

\* The binary64 specification: its symbols, the number of its train calls,
\* the largest length asked of generate, the number of draws next to 1.
FloatAlphabet == {"a", "b", "c"}

FloatTrains == 7   \* train calls in one behaviour of SpecFloat

FloatGen == 1      \* largest minLength / maxLength given to generate in SpecFloat

TopDraws == 2      \* Math.random() draws from 1 - 2^-53, ..., 1 - TopDraws * 2^-53

\* The absorbing counter's limit in generate (`zCount > 15`).
ZLimit == 15

(***************************************************************************)
(* Exact arithmetic on non-negative rationals <<n, d>>, d > 0.             *)
(***************************************************************************)
RECURSIVE GCD(_, _)
GCD(a, b) == IF b = 0 THEN a ELSE GCD(b, a % b)

Norm(n, d) == LET g == GCD(n, d) IN << n \div g, d \div g >>

Zero == << 0, 1 >>
One == << 1, 1 >>

RAdd(x, y) == Norm(x[1] * y[2] + y[1] * x[2], x[2] * y[2])

RGt(x, y) == x[1] * y[2] > y[1] * x[2]

RLeq(x, y) == ~RGt(x, y)

(***************************************************************************)
(* Property keys.                                                          *)
(***************************************************************************)
\* Decimal rendering of the indexes the model can hold (String(index)).
Digits == << "0", "1", "2", "3", "4", "5", "6", "7", "8", "9" >>

ToKey(i) == Digits[i + 1]

IsIndexKey(k) == \E i \in 1..Len(Digits) : Digits[i] = k

KeyIndex(k) == CHOOSE i \in 0..(Len(Digits) - 1) : Digits[i + 1] = k

\* obj[k] = v, creating the property when it is missing.
Put(obj, k, v) == [x \in (DOMAIN obj) \cup {k} |-> IF x = k THEN v ELSE obj[x]]

\* JavaScript null / an object that is there.
Null == << >>
Some(t) == << t >>

(***************************************************************************)
(* The constructor's fields.                                               *)
(***************************************************************************)
\* Array(depth).join(",").split(","): depth empty strings.
PrePadding(d) == [j \in 1..d |-> ""]

PostPadding == << "" >>

InitSymbols == << "" >>

InitSymbolMap == [x \in {""} |-> 0]

(***************************************************************************)
(* Helpers of train and score.                                             *)
(***************************************************************************)
padInput(xs, d) == PrePadding(d) \o xs \o PostPadding

\* this.symbolMap[x], rendered as a key; a missing symbol gives undefined.
symbolToIndex(sm, x) == IF x \in DOMAIN sm THEN ToKey(sm[x]) ELSE "undefined"

mapSymbolToIndex(sm, xs) == [i \in 1..Len(xs) |-> symbolToIndex(sm, xs[i])]

\* addSymbol on the pair of fields it writes; push returns the new length.
addSymbol(tab, x) ==
  IF x \in DOMAIN tab.symbolMap
  THEN tab
  ELSE [symbols |-> Append(tab.symbols, x),
        symbolMap |-> Put(tab.symbolMap, x, (Len(tab.symbols) + 1) - 1)]

RECURSIVE mapAddSymbol(_, _)
mapAddSymbol(tab, xs) ==
  IF xs = << >> THEN tab ELSE mapAddSymbol(addSymbol(tab, Head(xs)), Tail(xs))

\* Array.prototype.join renders undefined as the empty string.
JoinElem(k) == IF k = "undefined" THEN "" ELSE k

\* prefix(xs, i): xs.slice(i, i + depth).join(","), i counted from 0.
prefix(xs, i, d) == [j \in 1..d |-> JoinElem(xs[i + j])]

PairLimitShort(xs, d) == Len(xs) - d - 1

\* forEachPrefixPair's loop limit `l`.
PairLimit(xs, d) == Len(xs) - d

\* The pairs forEachPrefixPair hands to f, in order: i = 0 .. l - 1.
forEachPrefixPair(xs, d) ==
  [i \in 1..PairLimit(xs, d) |-> << prefix(xs, i - 1, d), xs[(i - 1) + d + 1] >>]

countPairOverwrite(c, p, s) ==
  LET obj == IF p \in DOMAIN c THEN c[p] ELSE [x \in {"_sum"} |-> 0]
      one == Put(obj, s, 1)
      two == [one EXCEPT !["_sum"] = @ + 1]
  IN  Put(c, p, two)

countPair(c, p, s) ==
  LET obj == IF p \in DOMAIN c THEN c[p] ELSE [x \in {"_sum"} |-> 0]
      one == Put(obj, s, (IF s \in DOMAIN obj THEN obj[s] ELSE 0) + 1)
      two == [one EXCEPT !["_sum"] = @ + 1]
  IN  Put(c, p, two)

RECURSIVE countPairs(_, _)
countPairs(c, pairs) ==
  IF pairs = << >>
  THEN c
  ELSE countPairs(countPair(c, Head(pairs)[1], Head(pairs)[2]), Tail(pairs))

\* score's callback: add count / _sum when both lookups are truthy.
scorePair(c, acc, p, s) ==
  IF p \in DOMAIN c /\ s \in DOMAIN c[p] /\ c[p][s] # 0
  THEN RAdd(acc, Norm(c[p][s], c[p]["_sum"]))
  ELSE acc

RECURSIVE scorePairs(_, _, _)
scorePairs(c, acc, pairs) ==
  IF pairs = << >>
  THEN acc
  ELSE scorePairs(c, scorePair(c, acc, Head(pairs)[1], Head(pairs)[2]), Tail(pairs))

\* this._score / this._scoreFactor, a double: x/0 is Infinity, 0/0 is NaN.
ScoreResult(acc, factor) ==
  IF factor # 0 THEN [kind |-> "number", val |-> Norm(acc[1], acc[2] * factor)]
  ELSE IF acc[1] # 0 THEN [kind |-> "Infinity", val |-> Zero]
  ELSE [kind |-> "NaN", val |-> Zero]

\* The whole of score, as a function of the model's fields and the input.
score(sm, c, d, xs) ==
  ScoreResult(scorePairs(c, Zero, forEachPrefixPair(mapSymbolToIndex(sm, padInput(xs, d)), d)),
              Len(xs))

(***************************************************************************)
(* The probability index.                                                  *)
(***************************************************************************)
\* The order in which `for (sfx in obj)` visits own keys: integer keys
\* ascending, then the string keys in creation order (only "_sum").
ForInKeys(obj) ==
  SelectSeq(Digits, LAMBDA k : k \in DOMAIN obj)
    \o SelectSeq(<< "_sum" >>, LAMBDA k : k \in DOMAIN obj)

RECURSIVE CumList(_, _, _)
CumList(obj, keys, upper) ==
  IF keys = << >>
  THEN << >>
  ELSE LET up == RAdd(upper, Norm(obj[Head(keys)], obj["_sum"]))
       IN  << << up, Head(keys) >> >> \o CumList(obj, Tail(keys), up)

updateProbabilities(c) == [p \in DOMAIN c |-> CumList(c[p], ForInKeys(c[p]), Zero)]

\* genSuffix's while loop: the first position (from 1) it stops at.
RECURSIVE ScanProbs(_, _, _)
ScanProbs(probs, rand, i) ==
  IF i <= Len(probs) /\ RGt(rand, probs[i][1])
  THEN ScanProbs(probs, rand, i + 1)
  ELSE i

\* genSuffix: reading [i] of a missing entry or [1] of a missing pair throws.
genSuffix(table, p, rand) ==
  IF p \notin DOMAIN table
  THEN "TypeError"
  ELSE LET i == ScanProbs(table[p], rand, 1)
       IN  IF i > Len(table[p]) THEN "TypeError" ELSE table[p][i][2]

(***************************************************************************)
(* The probability index as the program's numbers compute it.  A Number is *)
(* an IEEE 754 binary64; those the index holds lie in {0} \cup [1/16, 2]   *)
(* and are multiples of 2^-56, so a value is << i, hi, lo >> standing for  *)
(* i + hi / 2^28 + lo / 2^56.  Every operation rounds its exact result to  *)
(* 53 significant bits, ties to even.                                      *)
(***************************************************************************)
Limb == 2 ^ 28

Chunk == 2 ^ 14

F64Zero == << 0, 0, 0 >>

F64One == << 1, 0, 0 >>

\* The spacing of binary64 values at v, in units of 2^-56.
F64Ulp(v) ==
  IF v[1] >= 2 THEN 32
  ELSE IF v[1] = 1 THEN 16
  ELSE IF v[2] >= 2 ^ 27 THEN 8
  ELSE IF v[2] >= 2 ^ 26 THEN 4
  ELSE IF v[2] >= 2 ^ 25 THEN 2
  ELSE 1

\* v plus u units, with the carries.
F64AddUnits(v, u) ==
  LET lo == v[3] + u
      hi == v[2] + (lo \div Limb)
  IN  << v[1] + (hi \div Limb), hi % Limb, lo % Limb >>

\* The binary64 nearest to v + (r / s) units, where 0 <= r < s.
F64Round(v, r, s) ==
  LET u    == F64Ulp(v)
      low  == v[3] % u
      base == << v[1], v[2], v[3] - low >>
      twice == 2 * (low * s + r)
      odd  == ((v[3] - low) \div u) % 2 = 1
  IN  IF twice > u * s \/ (twice = u * s /\ odd)
      THEN F64AddUnits(base, u)
      ELSE base

\* c / s for integers 0 <= c <= s <= 16: long division, 14 bits at a time.
F64Div(c, s) ==
  LET r0 == c % s
      d1 == (r0 * Chunk) \div s
      r1 == (r0 * Chunk) % s
      d2 == (r1 * Chunk) \div s
      r2 == (r1 * Chunk) % s
      d3 == (r2 * Chunk) \div s
      r3 == (r2 * Chunk) % s
      d4 == (r3 * Chunk) \div s
      r4 == (r3 * Chunk) % s
  IN  F64Round(<< c \div s, d1 * Chunk + d2, d3 * Chunk + d4 >>, r4, s)

\* x + y
F64Add(x, y) ==
  F64Round(F64AddUnits(<< x[1] + y[1], x[2] + y[2], x[3] >>, y[3]), 0, 1)

\* x > y
F64Gt(x, y) ==
  \/ x[1] > y[1]
  \/ x[1] = y[1] /\ x[2] > y[2]
  \/ x[1] = y[1] /\ x[2] = y[2] /\ x[3] > y[3]

\* The k-th binary64 below 1: 1 - k * 2^-53.
F64BelowOne(k) == << 0, Limb - 1, Limb - 8 * k >>

F64Half == << 0, 2 ^ 27, 0 >>

RECURSIVE CumList64(_, _, _)
CumList64(obj, keys, upper) ==
  IF keys = << >>
  THEN << >>
  ELSE LET up == F64Add(upper, F64Div(obj[Head(keys)], obj["_sum"]))
       IN  << << up, Head(keys) >> >> \o CumList64(obj, Tail(keys), up)

\* updateProbabilities in binary64.
updateProbabilities64(c) ==
  [p \in DOMAIN c |-> CumList64(c[p], ForInKeys(c[p]), F64Zero)]

RECURSIVE ScanProbs64(_, _, _)
ScanProbs64(probs, rand, i) ==
  IF i <= Len(probs) /\ F64Gt(rand, probs[i][1])
  THEN ScanProbs64(probs, rand, i + 1)
  ELSE i

\* genSuffix in binary64.
genSuffix64(table, p, rand) ==
  IF p \notin DOMAIN table
  THEN "TypeError"
  ELSE LET i == ScanProbs64(table[p], rand, 1)
       IN  IF i > Len(table[p]) THEN "TypeError" ELSE table[p][i][2]

(***************************************************************************)
(* Helpers of generate.                                                    *)
(***************************************************************************)
\* `maxLength || minLength`; an omitted argument is undefined.
Omitted == 0 - 1

OrMin(maxArg, minArg) == IF maxArg = Omitted \/ maxArg = 0 THEN minArg ELSE maxArg

\* `sfx != 0` on a key: "0" == 0, every other key differs from 0.
NotZero(s) == s # "0"

LoopCondInclusive(len, s, mn, mx) == (len <= mx /\ NotZero(s)) \/ len < mn

\* The while condition of generate.
LoopCond(len, s, mn, mx) == (len < mx /\ NotZero(s)) \/ len < mn

\* this.symbols[sfx]
SymbolAt(syms, s) ==
  IF IsIndexKey(s) /\ KeyIndex(s) < Len(syms) THEN syms[KeyIndex(s) + 1] ELSE "undefined"

\* pfx.push(sfx); pfx.shift()
Shift(p, s) == Tail(Append(p, s))

AbsorbedEarly(z) == z >= ZLimit

\* `zCount > 15`
Absorbed(z) == z > ZLimit

(***************************************************************************)
(* JSON.                                                                   *)
(***************************************************************************)
\* `depth = depth || 1` in the constructor.
MarkovDepth(d) == IF d = 0 THEN 1 ELSE d

\* JSON.parse(JSON.stringify(model)): the object toJSON returns, copied.
toJSON(d, syms, c) == [depth |-> d, symbols |-> syms, counts |-> c]

fromJSONNoSymbols(obj) ==
  [depth |-> MarkovDepth(obj.depth), symbols |-> InitSymbols,
   symbolMap |-> InitSymbolMap, counts |-> obj.counts, probabilities |-> Null]

\* Markov.fromJSON: a new model of obj.depth, addSymbol over obj.symbols, obj.counts.
fromJSON(obj) ==
  LET tab == mapAddSymbol([symbols |-> InitSymbols, symbolMap |-> InitSymbolMap],
                          obj.symbols)
  IN  [depth |-> MarkovDepth(obj.depth), symbols |-> tab.symbols,
       symbolMap |-> tab.symbolMap, counts |-> obj.counts, probabilities |-> Null]

resetProbabilitiesKept(pr) == pr

\* Training resets probabilities.
resetProbabilities(pr) == Null

\* The fields train writes, from the fields it reads and its input: the
\* composition addSymbol*, padInput, symbolToIndex*, forEachPrefixPair(countPair).
train(tab, c, d, xs) ==
  LET tab1 == mapAddSymbol(tab, xs)
      idx  == mapSymbolToIndex(tab1.symbolMap, padInput(xs, d))
  IN  [symbols |-> tab1.symbols, symbolMap |-> tab1.symbolMap,
       counts |-> countPairs(c, forEachPrefixPair(idx, d))]

(***************************************************************************)
(* History: what the training input contained, counted on the symbols      *)
(* themselves and by position, independently of the code's bookkeeping.    *)
(***************************************************************************)
\* Number of positions of padded xs where prefix p is followed by symbol s.
WindowCount(xs, d, p, s) ==
  LET padded == PrePadding(d) \o xs \o << "" >>
  IN  Cardinality({i \in 1..(Len(padded) - d) :
                     /\ SubSeq(padded, i, i + d - 1) = p
                     /\ padded[i + d] = s})

WindowKeys(xs, d) ==
  LET padded == PrePadding(d) \o xs \o << "" >>
  IN  {<< SubSeq(padded, i, i + d - 1), padded[i + d] >> : i \in 1..(Len(padded) - d)}

AddWindows(w, xs, d) ==
  [k \in (DOMAIN w) \cup WindowKeys(xs, d) |->
     (IF k \in DOMAIN w THEN w[k] ELSE 0) + WindowCount(xs, d, k[1], k[2])]

(***************************************************************************)
(* The state machine.  A call is made when pc = "idle"; when it has        *)
(* returned or thrown, pc = "done" and lastOp, arg, ret and generate's     *)
(* locals show the call; Resume hands control back to the caller.          *)
(***************************************************************************)
\* Sequences of at most n symbols of the alphabet.
SeqsUpTo(n) == UNION {[1..k -> Alphabet] : k \in 0..n}

Inputs == SeqsUpTo(MaxLen)

Rands == 0..(RandDen - 1)

FloatInputs == {<< >>} \cup {<< x >> : x \in FloatAlphabet}

\* Math.random() as a Number: 0, 1/2 and the largest numbers below 1.
Rands64 == {F64Zero, F64Half} \cup {F64BelowOne(k) : k \in 1..TopDraws}

NoRet == [kind |-> "none", val |-> Zero]

Ret(k) == [kind |-> k, val |-> Zero]

\* generate's locals outside a call of generate.
NoLocals ==
  /\ minLength' = 0
  /\ maxLength' = 0
  /\ string' = << >>
  /\ pfx' = << >>
  /\ sfx' = "0"
  /\ zCount' = 0
  /\ zRun' = 0
  /\ maxRun' = 0

\* new Markov(depth)
Init ==
  /\ depth \in {MarkovDepth(d) : d \in 0..MaxDepth}
  /\ symbols = InitSymbols
  /\ symbolMap = InitSymbolMap
  /\ counts = << >>
  /\ probabilities = Null
  /\ pc = "idle"
  /\ minLength = 0
  /\ maxLength = 0
  /\ string = << >>
  /\ pfx = << >>
  /\ sfx = "0"
  /\ zCount = 0
  /\ ret = NoRet
  /\ lastOp = "new"
  /\ arg = << >>
  /\ nTrains = 0
  /\ windows = << >>
  /\ zRun = 0
  /\ maxRun = 0

\* model.train(xs)
Train(xs) ==
  /\ pc = "idle"
  /\ LET t == train([symbols |-> symbols, symbolMap |-> symbolMap], counts, depth, xs)
     IN  /\ symbols' = t.symbols
         /\ symbolMap' = t.symbolMap
         /\ counts' = t.counts
  /\ probabilities' = resetProbabilities(probabilities)
  /\ pc' = "done"
  /\ ret' = Ret("this")
  /\ lastOp' = "train"
  /\ arg' = xs
  /\ nTrains' = nTrains + 1
  /\ windows' = AddWindows(windows, xs, depth)
  /\ NoLocals
  /\ UNCHANGED depth

\* model.score(xs)
Score(xs) ==
  /\ pc = "idle"
  /\ pc' = "done"
  /\ ret' = score(symbolMap, counts, depth, xs)
  /\ lastOp' = "score"
  /\ arg' = xs
  /\ NoLocals
  /\ UNCHANGED << depth, symbols, symbolMap, counts, probabilities, nTrains, windows >>

\* model = Markov.fromJSON(JSON.stringify(model))
FromJSON ==
  /\ pc = "idle"
  /\ LET m == fromJSON(toJSON(depth, symbols, counts))
     IN  /\ depth' = m.depth
         /\ symbols' = m.symbols
         /\ symbolMap' = m.symbolMap
         /\ counts' = m.counts
         /\ probabilities' = m.probabilities
  /\ pc' = "done"
  /\ ret' = Ret("model")
  /\ lastOp' = "fromJSON"
  /\ arg' = << >>
  /\ NoLocals
  /\ UNCHANGED << nTrains, windows >>

\* The table generate samples from after its first statement.
Table == IF probabilities = Null THEN updateProbabilities(counts) ELSE probabilities[1]

\* The prefix state of a new call: the indices of the pre-padding.
StartPfx == mapSymbolToIndex(symbolMap, PrePadding(depth))

\* generate(minArg, maxArg) up to the first evaluation of the while condition:
\* tab is the index after the first statement, s what genSuffix(pfx) gave.
GenBegin(minArg, maxArg, tab, s) ==
  /\ pc = "idle"
  /\ probabilities' = Some(tab)
  /\ minLength' = minArg
  /\ maxLength' = OrMin(maxArg, minArg)
  /\ string' = << >>
  /\ pfx' = StartPfx
  /\ zCount' = 0
  /\ zRun' = 0
  /\ maxRun' = 0
  /\ lastOp' = "generate"
  /\ arg' = << >>
  /\ IF s = "TypeError"
     THEN /\ sfx' = "0"
          /\ pc' = "done"
          /\ ret' = Ret("TypeError")
     ELSE /\ sfx' = s
          /\ pc' = "loop"
          /\ ret' = NoRet
  /\ UNCHANGED << depth, symbols, symbolMap, counts, nTrains, windows >>

\* model.generate(minArg, maxArg) up to the first evaluation of the while condition.
GenCall(minArg, maxArg, r) ==
  GenBegin(minArg, maxArg, Table, genSuffix(Table, StartPfx, << r, RandDen >>))

\* The prefix state after the if statement of the loop body.
NextPfx == IF NotZero(sfx) THEN Shift(pfx, sfx) ELSE pfx

\* One pass through the body of generate's while loop; s is what
\* genSuffix(pfx) gives at the end of the pass.
GenStep(s) ==
  /\ pc = "loop"
  /\ LoopCond(Len(string), sfx, minLength, maxLength)
  /\ pfx' = NextPfx
  /\ IF NotZero(sfx)
     THEN /\ string' = Append(string, SymbolAt(symbols, sfx))
          /\ zCount' = zCount
          /\ zRun' = 0
          /\ maxRun' = maxRun
     ELSE /\ string' = string
          /\ zCount' = zCount + 1
          /\ zRun' = zRun + 1
          /\ maxRun' = IF zRun + 1 > maxRun THEN zRun + 1 ELSE maxRun
  /\ IF ~NotZero(sfx) /\ Absorbed(zCount')
     THEN /\ sfx' = sfx
          /\ pc' = "done"
          /\ ret' = Ret("list")
     ELSE IF s = "TypeError"
          THEN /\ sfx' = sfx
               /\ pc' = "done"
               /\ ret' = Ret("TypeError")
          ELSE /\ sfx' = s
               /\ pc' = "loop"
               /\ ret' = NoRet
  /\ UNCHANGED << depth, symbols, symbolMap, counts, probabilities, minLength,
                  maxLength, lastOp, arg, nTrains, windows >>

\* One pass through the body of generate's while loop.
GenIter(r) == GenStep(genSuffix(Table, NextPfx, << r, RandDen >>))

\* The same call where the index and the draw are binary64 numbers.
Table64 == IF probabilities = Null THEN updateProbabilities64(counts) ELSE probabilities[1]

GenCall64(minArg, maxArg, x) ==
  GenBegin(minArg, maxArg, Table64, genSuffix64(Table64, StartPfx, x))

GenIter64(x) == GenStep(genSuffix64(Table64, NextPfx, x))

\* The while condition is false: return string.
GenReturn ==
  /\ pc = "loop"
  /\ ~LoopCond(Len(string), sfx, minLength, maxLength)
  /\ pc' = "done"
  /\ ret' = Ret("list")
  /\ UNCHANGED << depth, symbols, symbolMap, counts, probabilities, minLength,
                  maxLength, string, pfx, sfx, zCount, lastOp, arg, nTrains,
                  windows, zRun, maxRun >>

\* The caller has the result; the model is ready for the next call.
Resume ==
  /\ pc = "done"
  /\ pc' = "idle"
  /\ ret' = NoRet
  /\ lastOp' = "none"
  /\ arg' = << >>
  /\ NoLocals
  /\ UNCHANGED << depth, symbols, symbolMap, counts, probabilities, nTrains, windows >>

\* Every operation, with the generator stepping through its loop.
Next ==
  \/ \E xs \in Inputs : nTrains < GenTrains /\ Train(xs)
  \/ \E xs \in Inputs : Score(xs)
  \/ FromJSON
  \/ \E mn \in 0..MaxGen : \E mx \in {Omitted} \cup (mn..MaxGen) : \E r \in Rands :
       GenCall(mn, mx, r)
  \/ \E r \in Rands : GenIter(r)
  \/ GenReturn
  \/ Resume

Spec == Init /\ [][Next]_vars

\* Training, scoring and the JSON round trip, with more training.
NextModel ==
  \/ \E xs \in Inputs : nTrains < MaxTrains /\ Train(xs)
  \/ \E xs \in Inputs : Score(xs)
  \/ FromJSON
  \/ Resume

SpecModel == Init /\ [][NextModel]_vars

\* Training on sequences of at most one symbol, then generate with the index
\* and the draws in binary64.
NextFloat ==
  \/ \E xs \in FloatInputs : nTrains < FloatTrains /\ Train(xs)
  \/ \E mn \in 0..FloatGen : \E mx \in {Omitted} \cup (mn..FloatGen) : \E x \in Rands64 :
       GenCall64(mn, mx, x)
  \/ \E x \in Rands64 : GenIter64(x)
  \/ GenReturn
  \/ Resume

SpecFloat == Init /\ [][NextFloat]_vars

(***************************************************************************)
(* Claims about generate.                                                  *)
(***************************************************************************)
Trained == nTrains >= 1

\* generate has returned its list (it did not throw).
Returned == pc = "done" /\ lastOp = "generate" /\ ret.kind = "list"

\* C1: on a model trained at least once, a call generate(minLength, maxLength)
\* with 0 <= minLength <= maxLength (maxLength omitted: maxLength = minLength)
\* never holds, and never returns, more than maxLength symbols.
C1_NeverLongerThanMax ==
  (Trained /\ lastOp = "generate" /\ minLength <= maxLength) => Len(string) <= maxLength

\* C1's case: sampling went on past minLength and the call returned exactly
\* maxLength symbols.
C1_Witness ==
  /\ Trained
  /\ Returned
  /\ minLength < maxLength
  /\ maxLength = MaxGen
  /\ Len(string) = maxLength

\* C2 as stated: generate(n, n), n >= 1, on a trained model returns fewer than
\* n symbols only after a run of 15 consecutive boundary draws.
C2_ShortOnlyAfterConsecutiveRun ==
  (Trained /\ Returned /\ minLength = maxLength /\ minLength >= 1 /\ Len(string) < minLength)
    => maxRun >= ZLimit

\* C2 amended: generate(n, n), n >= 1, on a trained model returns exactly n
\* symbols unless the call drew the boundary symbol more than 15 times in all
\* (16 draws, consecutive or not) before it had n symbols.
C2_ExactUnlessAbsorbed ==
  (Trained /\ Returned /\ minLength = maxLength /\ minLength >= 1)
    => \/ Len(string) = minLength
       \/ Len(string) < minLength /\ zCount = ZLimit + 1

\* C2's case: a short result whose boundary draws were interrupted by a symbol.
C2_Witness ==
  /\ Trained
  /\ Returned
  /\ minLength = maxLength
  /\ Len(string) < minLength
  /\ Len(string) >= 1
  /\ maxRun < ZLimit

(***************************************************************************)
(* Claims about score.                                                     *)
(***************************************************************************)
Scored == pc = "done" /\ lastOp = "score"

\* C3: the score of a non-empty sequence is a number between 0 and 1: the
\* summed relative frequencies never exceed the length of the input.
C3_ScoreAtMostOne ==
  (Scored /\ arg # << >>) => (ret.kind = "number" /\ RLeq(ret.val, One))

\* C8: scoring the empty sequence returns a defined number on every model,
\* not the outcome of a division by the input's zero length.
C8_EmptyScoreIsANumber ==
  (Scored /\ arg = << >>) => ret.kind = "number"

(***************************************************************************)
(* Claims about the probability index.                                     *)
(***************************************************************************)
SuffixKeys(obj) == (DOMAIN obj) \ {"_sum"}

\* C4: after a rebuild on a trained model, every prefix's cumulative list
\* ends at cumulative mass 1 and has one pair per recorded suffix index.
C4_CumulativeListEndsAtOne ==
  (Trained /\ probabilities # Null) =>
    \A p \in DOMAIN counts :
      LET probs == probabilities[1][p]
      IN  /\ Len(probs) = Cardinality(SuffixKeys(counts[p]))
          /\ probs[Len(probs)][1] = One

\* C9: the probability index is absent or is what a rebuild from the current
\* counts gives; a train call leaves it absent; a built index is only ever
\* dropped, never replaced by another table; counts never change under a
\* built index that stays.
C9_IndexAbsentOrConsistent ==
  /\ [](/\ probabilities = Null \/ probabilities = Some(updateProbabilities(counts))
        /\ (pc = "done" /\ lastOp \in {"train", "fromJSON"}) => probabilities = Null)
  /\ [][/\ probabilities # Null => probabilities' \in {probabilities, Null}
        /\ counts' # counts => probabilities' = Null]_vars

\* C9's case: generate has rebuilt the index of a trained model.
C9_Witness ==
  /\ Trained
  /\ Returned
  /\ counts # << >>
  /\ probabilities = Some(updateProbabilities(counts))

(***************************************************************************)
(* Claims about train.                                                     *)
(***************************************************************************)
\* The key of a symbol, and the prefix key of a list of symbols.
SymKey(x) == symbolToIndex(symbolMap, x)

SymPrefix(p) == [j \in 1..Len(p) |-> JoinElem(SymKey(p[j]))]

RECURSIVE SumWindows(_)
SumWindows(ks) ==
  IF ks = {}
  THEN 0
  ELSE LET k == CHOOSE x \in ks : TRUE IN windows[k] + SumWindows(ks \ {k})

\* Every count is the number of windows with that prefix and suffix, every
\* _sum the number of windows with that prefix, and nothing else is recorded.
CountsAreWindows ==
  /\ \A k \in DOMAIN windows :
       /\ SymPrefix(k[1]) \in DOMAIN counts
       /\ SymKey(k[2]) \in DOMAIN counts[SymPrefix(k[1])]
       /\ counts[SymPrefix(k[1])][SymKey(k[2])] = windows[k]
       /\ counts[SymPrefix(k[1])]["_sum"] =
            SumWindows({j \in DOMAIN windows : j[1] = k[1]})
  /\ \A p \in DOMAIN counts : \A s \in SuffixKeys(counts[p]) :
       \E k \in DOMAIN windows : SymPrefix(k[1]) = p /\ SymKey(k[2]) = s

\* No count or total is removed or decreased.
CountsOnlyGrow ==
  \A p \in DOMAIN counts :
    /\ p \in DOMAIN counts'
    /\ \A s \in DOMAIN counts[p] :
         s \in DOMAIN counts'[p] /\ counts'[p][s] >= counts[p][s]

\* C5: train is additive: after any train calls, each (prefix, suffix) count
\* is the number of windows of the padded training sequences with that
\* prefix and suffix, each prefix total the number of windows with that
\* prefix, and no call decreases or resets a count or a total.
C5_TrainIsAdditive == []CountsAreWindows /\ [][CountsOnlyGrow]_vars

\* C5's case: a second train call has added to a count the first one made.
C5_Witness ==
  /\ pc = "done"
  /\ lastOp = "train"
  /\ nTrains = 2
  /\ arg # << >>
  /\ \E k \in DOMAIN windows :
       /\ k[2] # ""
       /\ windows[k] > WindowCount(arg, depth, k[1], k[2])
       /\ WindowCount(arg, depth, k[1], k[2]) > 0

(***************************************************************************)
(* Claims about the JSON round trip.                                       *)
(***************************************************************************)
TableOf(syms, sm) == [symbols |-> syms, symbolMap |-> sm]

\* C6: fromJSON(JSON.stringify(M)) has M's depth, symbol table and counts,
\* scores every sequence as M does, and still does after both are trained
\* on the same further sequence.
C6_RoundTrip ==
  [][(pc = "idle" /\ lastOp' = "fromJSON") =>
       /\ depth' = depth
       /\ symbols' = symbols
       /\ symbolMap' = symbolMap
       /\ counts' = counts
       /\ \A S \in Inputs :
            score(symbolMap', counts', depth', S) = score(symbolMap, counts, depth, S)
       /\ \A T \in Inputs : \A S \in Inputs :
            LET a == train(TableOf(symbols', symbolMap'), counts', depth', T)
                b == train(TableOf(symbols, symbolMap), counts, depth, T)
            IN  score(a.symbolMap, a.counts, depth', S)
                  = score(b.symbolMap, b.counts, depth, S)]_vars

\* C6's case: a model trained on two symbols has been through the round trip.
C6_Witness ==
  /\ pc = "done"
  /\ lastOp = "fromJSON"
  /\ nTrains = 2
  /\ Len(symbols) = 3
  /\ depth = 2

(***************************************************************************)
(* Claims about unseen states.                                             *)
(***************************************************************************)
\* C7: generate never raises a fault, on any model, trained or not: at a
\* prefix without an entry it stops and returns what it has produced.
C7_GenerateNeverThrows ==
  (pc = "done" /\ lastOp = "generate") => ret.kind = "list"

\* C10: on a trained model every state generate samples from has an entry in
\* the counts and in the index, so the call never throws; the loop holds at
\* most maxLength symbols and 15 boundary draws, and every pass adds one to
\* their sum, so the call returns.
C10_SampledStatesAreSeen ==
  /\ []((Trained /\ lastOp = "generate") =>
          /\ ret.kind # "TypeError"
          /\ pc = "loop" =>
               /\ pfx \in DOMAIN counts
               /\ pfx \in DOMAIN probabilities[1]
               /\ Len(string) <= maxLength
               /\ zCount <= ZLimit)
  /\ [][(pc = "loop" /\ pc' = "loop") =>
          Len(string') + zCount' = Len(string) + zCount + 1]_vars

\* C10's case: at depth 2 the window consists of two sampled symbols.
C10_Witness ==
  /\ Trained
  /\ depth = 2
  /\ pc = "loop"
  /\ Len(string) >= 2
  /\ pfx[1] # "0"
  /\ pfx[2] # "0"

(***************************************************************************)
(* Claims about the sampled suffix.                                        *)
(***************************************************************************)
\* The symbols training has added: every entry of symbols after the boundary.
TrainedSymbols == {symbols[k] : k \in 2..Len(symbols)}

\* C11: on a trained model the suffix genSuffix returns for the current
\* prefix is a suffix index counted at least once for that prefix, never the
\* "_sum" entry, and every symbol generate has appended is a non-boundary
\* symbol of the training sequences.
C11_SampledSuffixIsReal ==
  (Trained /\ lastOp = "generate") =>
    /\ \A i \in DOMAIN string : string[i] \in TrainedSymbols
    /\ pc = "loop" =>
         /\ sfx # "_sum"
         /\ IsIndexKey(sfx)
         /\ pfx \in DOMAIN counts
         /\ sfx \in SuffixKeys(counts[pfx])
         /\ counts[pfx][sfx] >= 1

====
